---- MODULE Spec2Model ----
(***************************************************************************)
(* The metrics broadcast server of server/index.js: a viewer counter kept  *)
(* by the socket.io connection handlers, a one-second timer whose async    *)
(* callback samples the host through getSystemMetrics and emits the        *)
(* snapshot to every connected socket, and the /health endpoint.           *)
(*                                                                         *)
(* Node runs one macrotask at a time (a timer callback, a socket event, an *)
(* HTTP request, the I/O completion that settles Promise.all) and drains   *)
(* the microtask queue (the continuation after `await`) before the next    *)
(* macrotask.  JS numbers that are the result of a division are modelled   *)
(* as exact rationals with NaN and the infinities; the rounding of IEEE    *)
(* doubles is not modelled.                                                *)
(***************************************************************************)
EXTENDS Integers, Sequences, FiniteSets, TLC

VARIABLES
    connectedClients,   \* index.js:20  the viewer counter
    sockets,            \* the sockets of the default namespace, the set io.emit reaches
    serverState,        \* "running", or "crashed" after an unhandled rejection
    ticks,              \* number of timer callbacks fired so far
    samples,            \* per tick: the state of the async callback started by it
    samplerCalls,       \* number of invocations of getSystemMetrics
    received,           \* per viewer: the systemMetrics events that arrived, in order
    connects,           \* number of 'connection' events handled
    disconnects,        \* number of 'disconnect' events handled
    httpOut,            \* the HTTP response written by the handler that ran last
    client,             \* per viewer: the state of its App component
    probe               \* the subject of the isolated specifications: one call of
                        \* getSystemMetrics (SamplerSpec), one start-up (BootSpec)

vars == <<connectedClients, sockets, serverState, ticks, samples, samplerCalls,
          received, connects, disconnects, httpOut, client, probe>>

----------------------------------------------------------------------------
(* Bounds of the model *)

MaxConnects == 2
MaxTicks == 2
MaxProcs == 11
MaxEnvPort == 5000
MaxMantissa == 1025
MaxExp == 5

(* Program constants *)

TopN == 10
TickMs == 1000
Percent == 100
DefaultPort == 3001
ReadmePort == 5000
Base == 1024
RoundScale == 100

\* every connection is a socket of its own: the k-th connection is viewer k
Viewers == 1..MaxConnects
TickIds == 1..MaxTicks

----------------------------------------------------------------------------
(* JS values *)

Null == [k |-> "null", n |-> 0, d |-> 1]
NaN == [k |-> "nan", n |-> 0, d |-> 1]
PosInf == [k |-> "inf", n |-> 1, d |-> 1]
NegInf == [k |-> "inf", n |-> -1, d |-> 1]

Abs(x) == IF x < 0 THEN -x ELSE x
Min(a, b) == IF a < b THEN a ELSE b

RECURSIVE GCD(_, _)
GCD(a, b) == IF b = 0 THEN a ELSE GCD(b, a % b)

\* a finite JS number n/d, in lowest terms with a positive denominator
Ratio(n, d) ==
    LET g == GCD(Abs(n), Abs(d))
        s == IF d < 0 THEN -1 ELSE 1
    IN  [k |-> "num", n |-> (s * n) \div g, d |-> (s * d) \div g]

Num(n) == Ratio(n, 1)

\* a / b for two integers, as JS divides
JsDiv(a, b) ==
    IF b # 0 THEN Ratio(a, b)
    ELSE IF a = 0 THEN NaN
    ELSE IF a > 0 THEN PosInf ELSE NegInf

\* x * c for a JS number x and a positive integer c
JsMul(x, c) == IF x.k = "num" THEN Ratio(x.n * c, x.d) ELSE x

\* x || 0
OrZero(x) == IF x.k \in {"null", "nan"} \/ (x.k = "num" /\ x.n = 0) THEN Num(0) ELSE x

\* JSON.stringify writes NaN and the infinities as null
JsonNum(x) == IF x.k = "num" THEN x ELSE Null

----------------------------------------------------------------------------
(* The host facts the nine systeminformation queries answer with *)

Queries == {"cpu", "mem", "fsSize", "networkStats", "currentLoad", "osInfo",
            "system", "graphics", "processes"}

CpuFact == [brand |-> "cpu0", cores |-> 4, physicalCores |-> 2, speed |-> 3]
LoadFact == [currentLoad |-> Num(25), currentLoadUser |-> Num(0)]
OsFact == [hostname |-> "host", platform |-> "linux", arch |-> "x64",
           kernel |-> "6.1", uptime |-> 7]
SystemFact == [manufacturer |-> "acme", model |-> "m1", version |-> "1",
               serial |-> "s1"]

Mem(total, used) == [total |-> total, used |-> used, available |-> total - used,
                     free |-> total - used]
MemFacts == {Mem(100, 50), Mem(8, 3), Mem(3, 3), Mem(0, 0)}

Vol(fs, size, used) == [fs |-> fs, type |-> "ext4", size |-> size, used |-> used,
                        available |-> size - used, mount |-> fs]
DiskFacts == { <<>>,
               <<Vol("sda1", 10, 5)>>,
               <<Vol("sdb1", 3, 2), Vol("sda1", 10, 5)>>,
               <<Vol("sda1", 4, 1), Vol("tmpfs", 0, 0)>>,
               <<[Vol("overlay", 0, 1) EXCEPT !.available = 0]>> }

Iface(name, rx, tx) == [iface |-> name, operstate |-> "up", rx_sec |-> rx, tx_sec |-> tx]
\* a rate is missing (null) on the first sample of an interface
NetFacts == { <<>>,
              <<Iface("lo", Null, Null)>>,
              <<Iface("wlan0", NaN, Ratio(1, 2))>>,
              <<Iface("eth0", Num(5), Num(0)), Iface("lo", Null, Num(2))>> }

\* process i of the table: cpu and mem are not monotonic in the table order
Proc(i) == [pid |-> 100 + i, name |-> "proc", cpu |-> (i * 7) % 5, mem |-> (i * 3) % 4,
            command |-> "cmd", state |-> "sleeping"]
ProcTable(n) == [all |-> n, running |-> n \div 2, sleeping |-> n - (n \div 2),
                 list |-> [i \in 1..n |-> Proc(i)]]
ProcFacts == {ProcTable(n) : n \in 0..MaxProcs}

Gpu(v) == [vendor |-> v, model |-> "g1", vram |-> 512, bus |-> "pci"]
\* hasControllers = FALSE: the result object carries no controllers array
GraphicsFacts == { [hasControllers |-> TRUE, controllers |-> <<>>],
                   [hasControllers |-> TRUE, controllers |-> <<Gpu("v1")>>],
                   [hasControllers |-> FALSE, controllers |-> <<>>] }

Facts(m, d, n, p, g) ==
    [cpu |-> CpuFact, mem |-> m, fsSize |-> d, networkStats |-> n,
     currentLoad |-> LoadFact, osInfo |-> OsFact, system |-> SystemFact,
     graphics |-> g, processes |-> p]

AllFacts == {Facts(m, d, n, p, g) : m \in MemFacts, d \in DiskFacts, n \in NetFacts,
                                    p \in ProcFacts, g \in GraphicsFacts}

\* the host facts met by the samples of the running server
HostFacts ==
    { Facts(Mem(100, 50), <<Vol("sda1", 4, 1), Vol("tmpfs", 0, 0)>>,
            <<Iface("lo", Null, Null)>>,
            ProcTable(MaxProcs), [hasControllers |-> TRUE, controllers |-> <<Gpu("v1")>>]),
      Facts(Mem(8, 3), <<>>, <<Iface("eth0", Num(5), Num(0)), Iface("lo", Null, Num(2))>>,
            ProcTable(0), [hasControllers |-> FALSE, controllers |-> <<>>]) }

\* which queries reject in one Promise.all of the running server: none, one, all
FailSets == {{}, {"mem"}, Queries}

----------------------------------------------------------------------------
(* getSystemMetrics *)

SliceFrontInclusive(s, n) == SubSeq(s, 1, Min(n + 1, Len(s)))

\* Array.prototype.slice(0, n)
SliceFront(s, n) == SubSeq(s, 1, Min(n, Len(s)))

\* a guarded division: 0 percent of nothing
MemoryPercentageGuarded(m) ==
    IF m.total = 0 THEN Num(0) ELSE JsMul(JsDiv(m.used, m.total), Percent)

MemoryPercentageNoScale(m) == JsDiv(m.used, m.total)

MemoryPercentage(m) == JsMul(JsDiv(m.used, m.total), Percent)

DiskPercentageOfFree(v) == JsMul(JsDiv(v.available, v.size), Percent)

DiskPercentage(v) == JsMul(JsDiv(v.used, v.size), Percent)

DiskEntry(v) == [fs |-> v.fs, size |-> v.size, used |-> v.used,
                 available |-> v.available, percentage |-> DiskPercentage(v)]

\* the entry without the || 0 defaults
NetworkEntryRaw(n) == [iface |-> n.iface, rx_sec |-> n.rx_sec, tx_sec |-> n.tx_sec]

NetworkEntry(n) == [iface |-> n.iface, rx_sec |-> OrZero(n.rx_sec),
                    tx_sec |-> OrZero(n.tx_sec)]

ProcessEntry(p) == [pid |-> p.pid, name |-> p.name, cpu |-> p.cpu, mem |-> p.mem]

TopProcesses(list) ==
    LET top == SliceFront(list, TopN) IN [i \in 1..Len(top) |-> ProcessEntry(top[i])]

GraphicsEntry(g) == [vendor |-> g.vendor, model |-> g.model, vram |-> g.vram]

\* the object literal of the try block, built from the joined results
Assemble(f, now) ==
    [timestamp |-> now,
     cpu |-> [brand |-> f.cpu.brand, cores |-> f.cpu.cores,
              physicalCores |-> f.cpu.physicalCores,
              usage |-> f.currentLoad.currentLoad, speed |-> f.cpu.speed,
              temperature |-> OrZero(f.currentLoad.currentLoadUser)],
     memory |-> [total |-> f.mem.total, used |-> f.mem.used,
                 available |-> f.mem.available,
                 percentage |-> MemoryPercentage(f.mem)],
     disk |-> [i \in 1..Len(f.fsSize) |-> DiskEntry(f.fsSize[i])],
     network |-> [i \in 1..Len(f.networkStats) |-> NetworkEntry(f.networkStats[i])],
     device |-> [hostname |-> f.osInfo.hostname, platform |-> f.osInfo.platform,
                 arch |-> f.osInfo.arch, kernel |-> f.osInfo.kernel,
                 uptime |-> f.osInfo.uptime,
                 manufacturer |-> f.system.manufacturer, model |-> f.system.model,
                 version |-> f.system.version, serial |-> f.system.serial],
     processes |-> [all |-> f.processes.all, running |-> f.processes.running,
                    sleeping |-> f.processes.sleeping,
                    list |-> TopProcesses(f.processes.list)],
     graphics |-> [i \in 1..Len(f.graphics.controllers) |->
                     GraphicsEntry(f.graphics.controllers[i])]]

\* building the literal raises a TypeError: .map of an undefined controllers
AssembleThrows(f) == ~f.graphics.hasControllers

Returned(v) == [kind |-> "return", value |-> v]
Thrown == [kind |-> "throw", value |-> Null]

GetSystemMetricsNoCatch(failed, f, now) ==
    IF failed # {} \/ AssembleThrows(f) THEN Thrown ELSE Returned(Assemble(f, now))

GetSystemMetricsPartial(failed, f, now) ==
    IF AssembleThrows(f) \/ "graphics" \in failed
    THEN Returned(Null)
    ELSE Returned(Assemble(f, now))

\* a sampler that numbers its snapshots keeps state across calls
GetSystemMetricsCounting(failed, f, now) ==
    IF failed # {} \/ AssembleThrows(f)
    THEN Returned(Null)
    ELSE Returned([Assemble(f, now) EXCEPT !.processes.all = @ + samplerCalls])

\* the settled result of the async function: `failed` are the queries that
\* rejected, f the results of those that resolved
GetSystemMetrics(failed, f, now) ==
    IF failed # {} \/ AssembleThrows(f)
    THEN Returned(Null)               \* catch: log, return null
    ELSE Returned(Assemble(f, now))

\* what socket.io puts on the wire: the JSON text of the payload
ToWire(m) ==
    [m EXCEPT !.memory.percentage = JsonNum(@),
              !.disk = [i \in 1..Len(@) |-> [@[i] EXCEPT !.percentage = JsonNum(@)]],
              !.cpu.usage = JsonNum(@),
              !.cpu.temperature = JsonNum(@),
              !.network = [i \in 1..Len(@) |->
                              [@[i] EXCEPT !.rx_sec = JsonNum(@), !.tx_sec = JsonNum(@)]]]

----------------------------------------------------------------------------
(* The server *)

NoSample == [phase |-> "unfired", atFire |-> 0, failed |-> {}, cause |-> "none",
             ret |-> Returned(Null), out |-> "none", to |-> {}, emits |-> 0]

\* useState(null), useState(false)
AppInit == [metrics |-> Null, isConnected |-> FALSE]

\* socket.on('connect'): setIsConnected(true)
OnConnect(c) == [c EXCEPT !.isConnected = TRUE]

\* a disconnect handler that also drops the snapshot
OnDisconnectClearing(c) == [metrics |-> Null, isConnected |-> FALSE]

\* socket.on('disconnect'): setIsConnected(false)
OnDisconnect(c) == [c EXCEPT !.isConnected = FALSE]

\* socket.on('systemMetrics'): setMetrics(data)
OnSystemMetrics(c, data) == [c EXCEPT !.metrics = data]

\* what App renders: {metrics ? <SystemMonitor metrics={metrics} /> : loading}
Render(c) == IF c.metrics # Null
             THEN [screen |-> "monitor", metrics |-> c.metrics]
             ELSE [screen |-> "loading", metrics |-> Null]

\* the handler that ran last answered no HTTP request
NoResponse == [status |-> "none", connectedClients |-> 0]

NoProbe == [phase |-> "idle", failed |-> {}, facts |-> Null, ret |-> Returned(Null),
            prev |-> Returned(Null)]

Init ==
    /\ connectedClients = 0
    /\ sockets = {}
    /\ serverState = "running"
    /\ ticks = 0
    /\ samples = [s \in TickIds |-> NoSample]
    /\ samplerCalls = 0
    /\ received = [v \in Viewers |-> <<>>]
    /\ connects = 0
    /\ disconnects = 0
    /\ httpOut = NoResponse
    /\ client = [v \in Viewers |-> AppInit]
    /\ probe = NoProbe

\* Date.now(), in the resolution of the timer period
DateNow == ticks * TickMs

\* a continuation after `await` is queued: it runs before any other event
MicrotaskPending == \E s \in TickIds : samples[s].phase = "returned"

\* an event loop that a sample in flight keeps busy
IdleBlockedBySample ==
    /\ serverState = "running"
    /\ ~MicrotaskPending
    /\ \A s \in TickIds : samples[s].phase # "awaiting"

\* the event loop may take the next macrotask
Idle == serverState = "running" /\ ~MicrotaskPending

\* connectedClients++
Incremented(n) == n + 1

DecrementedTwice(n) == n - 2

\* connectedClients--
Decremented(n) == n - 1

\* a connection handler that also samples for the newcomer
ConnectSampling ==
    /\ Idle
    /\ connects < MaxConnects
    /\ sockets' = sockets \cup {connects + 1}
    /\ connectedClients' = Incremented(connectedClients)
    /\ connects' = connects + 1
    /\ samplerCalls' = samplerCalls + 1
    /\ httpOut' = NoResponse
    /\ client' = [client EXCEPT ![connects + 1] = OnConnect(@)]
    /\ UNCHANGED <<serverState, ticks, samples, received, disconnects, probe>>

\* io.on('connection'): the socket has joined the namespace, the handler counts it
Connect ==
    /\ Idle
    /\ connects < MaxConnects
    /\ sockets' = sockets \cup {connects + 1}
    /\ connectedClients' = Incremented(connectedClients)
    /\ connects' = connects + 1
    /\ httpOut' = NoResponse
    /\ client' = [client EXCEPT ![connects + 1] = OnConnect(@)]
    /\ UNCHANGED <<serverState, ticks, samples, samplerCalls, received, disconnects, probe>>

\* socket.on('disconnect'): the socket has left the namespace, the handler of
\* that socket uncounts it
Disconnect(v) ==
    /\ Idle
    /\ v \in sockets
    /\ sockets' = sockets \ {v}
    /\ connectedClients' = Decremented(connectedClients)
    /\ disconnects' = disconnects + 1
    /\ httpOut' = NoResponse
    /\ client' = [client EXCEPT ![v] = OnDisconnect(@)]
    /\ UNCHANGED <<serverState, ticks, samples, samplerCalls, received, connects, probe>>

TickBranchAlways == "sample"

\* a single-slot in-flight flag: a tick is dropped while a sample is outstanding
TickBranchGuarded ==
    IF connectedClients > 0 /\ \A s \in TickIds : samples[s].phase # "awaiting"
    THEN "sample" ELSE "skip"

TickBranchSticky ==
    IF connectedClients > 0 /\ \A s \in TickIds : samples[s].out # "dropped"
    THEN "sample" ELSE "skip"

\* the test of the timer callback
TickBranch == IF connectedClients > 0 THEN "sample" ELSE "skip"

\* the setInterval callback up to its await: getSystemMetrics is called and
\* has issued the nine queries, or the tick is skipped
Tick ==
    /\ Idle
    /\ ticks < MaxTicks
    /\ ticks' = ticks + 1
    /\ IF TickBranch = "sample"
       THEN /\ samples' = [samples EXCEPT ![ticks + 1] =
                              [NoSample EXCEPT !.phase = "awaiting",
                                               !.atFire = connectedClients]]
            /\ samplerCalls' = samplerCalls + 1
       ELSE /\ samples' = [samples EXCEPT ![ticks + 1] =
                              [NoSample EXCEPT !.phase = "done", !.out = "skipped",
                                               !.atFire = connectedClients]]
            /\ UNCHANGED samplerCalls
    /\ httpOut' = NoResponse
    /\ UNCHANGED client
    /\ UNCHANGED <<connectedClients, sockets, serverState, received, connects,
                   disconnects, probe>>

\* a timestamp taken when the tick fires: tick s fires at s * TickMs
SampleTimeAtCall(s) == s * TickMs

\* timestamp: Date.now() is evaluated in the literal, after the await of
\* Promise.all, when the sample of tick s settles
SampleTime(s) == DateNow

\* Promise.all settles (all nine resolved, or one rejected) and the rest of
\* getSystemMetrics runs: the snapshot is built, or the catch returns null
Settle(s) ==
    /\ Idle
    /\ samples[s].phase = "awaiting"
    /\ \E failed \in FailSets, f \in HostFacts :
          samples' = [samples EXCEPT ![s] =
                         [@ EXCEPT !.phase = "returned",
                                   !.failed = failed,
                                   !.cause = IF failed # {} THEN "query"
                                             ELSE IF AssembleThrows(f) THEN "assemble"
                                             ELSE "none",
                                   !.ret = GetSystemMetrics(failed, f, SampleTime(s))]]
    /\ httpOut' = NoResponse
    /\ UNCHANGED client
    /\ UNCHANGED <<connectedClients, sockets, serverState, ticks, samplerCalls,
                   received, connects, disconnects, probe>>

\* a push that looks at the counter again
TruthyWhileViewed(m) == m # Null /\ connectedClients > 0

\* if (metrics)
Truthy(m) == m # Null

EmitTargetsEverConnected == 1..connects

\* io.emit: the sockets the broadcast goes to
EmitTargets == sockets

\* what is left of a sample once its callback has finished
Finished(smp, out, to) ==
    [smp EXCEPT !.phase = "done", !.out = out, !.to = to, !.failed = {},
                !.ret = Returned(Null)]

\* the callback resumes after its await
Resume(s) ==
    /\ serverState = "running"
    /\ samples[s].phase = "returned"
    /\ LET r == samples[s].ret IN
          IF r.kind = "throw"
          THEN \* the callback's promise rejects and nothing handles it
               /\ serverState' = "crashed"
               /\ samples' = [samples EXCEPT ![s] = Finished(@, "escaped", {})]
               /\ UNCHANGED <<received, client>>
          ELSE IF Truthy(r.value)
          THEN /\ received' = [v \in Viewers |->
                                 IF v \in EmitTargets
                                 THEN Append(received[v],
                                             [sample |-> s, data |-> ToWire(r.value)])
                                 ELSE received[v]]
               /\ client' = [v \in Viewers |->
                                IF v \in EmitTargets
                                THEN OnSystemMetrics(client[v], ToWire(r.value))
                                ELSE client[v]]
               /\ samples' = [samples EXCEPT ![s] =
                                  [Finished(@, "emitted", EmitTargets)
                                     EXCEPT !.emits = @ + 1]]
               /\ UNCHANGED serverState
          ELSE /\ samples' = [samples EXCEPT ![s] = Finished(@, "dropped", {})]
               /\ UNCHANGED <<serverState, received, client>>
    /\ httpOut' = NoResponse
    /\ UNCHANGED <<connectedClients, sockets, ticks, samplerCalls, connects,
                   disconnects, probe>>

HealthBodyDegraded ==
    [status |-> IF \E s \in TickIds : samples[s].out = "dropped" THEN "DEGRADED" ELSE "OK",
     connectedClients |-> connectedClients]

HealthBodyConnects == [status |-> "OK", connectedClients |-> connects]

\* res.json({ status: 'OK', connectedClients })
HealthBody == [status |-> "OK", connectedClients |-> connectedClients]

\* app.get('/health')
Health ==
    /\ Idle
    /\ httpOut' = HealthBody
    /\ UNCHANGED client
    /\ UNCHANGED <<connectedClients, sockets, serverState, ticks, samples,
                   samplerCalls, received, connects, disconnects, probe>>

Next ==
    \/ Connect
    \/ \E v \in Viewers : Disconnect(v)
    \/ Tick
    \/ \E s \in TickIds : Settle(s)
    \/ \E s \in TickIds : Resume(s)
    \/ Health

Spec == Init /\ [][Next]_vars

\* the timer fires for the lifetime of the process and a queued continuation
\* always runs; nothing makes the collaborator answer
LiveSpec ==
    /\ Spec
    /\ WF_vars(Tick)
    /\ \A s \in TickIds : WF_vars(Resume(s))

----------------------------------------------------------------------------
(* One call of getSystemMetrics against given collaborator results *)

SamplerInit ==
    /\ connectedClients = 0
    /\ sockets = {}
    /\ serverState = "running"
    /\ ticks = 0
    /\ samples = [s \in TickIds |-> NoSample]
    /\ samplerCalls = 0
    /\ received = [v \in Viewers |-> <<>>]
    /\ connects = 0
    /\ disconnects = 0
    /\ httpOut = NoResponse
    /\ client = [v \in Viewers |-> AppInit]
    /\ \/ \E f \in AllFacts :
             probe = [phase |-> "called", failed |-> {}, facts |-> f,
                      ret |-> Returned(Null), prev |-> Returned(Null)]
       \/ \E failed \in (SUBSET Queries) \ {{}}, f \in HostFacts :
             probe = [phase |-> "called", failed |-> failed, facts |-> f,
                      ret |-> Returned(Null), prev |-> Returned(Null)]

SamplerCall ==
    /\ probe.phase = "called"
    /\ probe' = [probe EXCEPT !.phase = "settled",
                              !.ret = GetSystemMetrics(probe.failed, probe.facts, DateNow)]
    /\ samplerCalls' = samplerCalls + 1
    /\ UNCHANGED client
    /\ UNCHANGED <<connectedClients, sockets, serverState, ticks, samples, received,
                   connects, disconnects, httpOut>>

\* a second call, one timer period later, against the same collaborator results
SamplerCallAgain ==
    /\ probe.phase = "settled"
    /\ ticks' = ticks + 1
    /\ probe' = [probe EXCEPT !.phase = "again",
                              !.prev = probe.ret,
                              !.ret = GetSystemMetrics(probe.failed, probe.facts, DateNow')]
    /\ samplerCalls' = samplerCalls + 1
    /\ UNCHANGED client
    /\ UNCHANGED <<connectedClients, sockets, serverState, samples, received,
                   connects, disconnects, httpOut>>

SamplerNext == SamplerCall \/ SamplerCallAgain

SamplerSpec == SamplerInit /\ [][SamplerNext]_vars

----------------------------------------------------------------------------
(* Start-up: the port the server listens on *)

\* process.env.PORT: not set, set to the empty string, or set to a number's text
EnvUnset == [set |-> FALSE, empty |-> TRUE, n |-> 0]
EnvEmpty == [set |-> TRUE, empty |-> TRUE, n |-> 0]
EnvPort(n) == [set |-> TRUE, empty |-> FALSE, n |-> n]
EnvValues == {EnvUnset, EnvEmpty} \cup {EnvPort(n) : n \in 0..MaxEnvPort}

ListenPortOfEnv(env) == env.n

\* process.env.PORT || 3001: undefined and "" are falsy, any other text is kept
ListenPort(env) == IF env.set /\ ~env.empty THEN env.n ELSE DefaultPort

BootInit ==
    /\ connectedClients = 0
    /\ sockets = {}
    /\ serverState = "running"
    /\ ticks = 0
    /\ samples = [s \in TickIds |-> NoSample]
    /\ samplerCalls = 0
    /\ received = [v \in Viewers |-> <<>>]
    /\ connects = 0
    /\ disconnects = 0
    /\ httpOut = NoResponse
    /\ client = [v \in Viewers |-> AppInit]
    /\ \E env \in EnvValues : probe = [phase |-> "starting", env |-> env, port |-> 0]

\* server.listen(PORT, ...)
Listen ==
    /\ probe.phase = "starting"
    /\ probe' = [probe EXCEPT !.phase = "listening", !.port = ListenPort(probe.env)]
    /\ UNCHANGED client
    /\ UNCHANGED <<connectedClients, sockets, serverState, ticks, samples,
                   samplerCalls, received, connects, disconnects, httpOut>>

BootNext == Listen

BootSpec == BootInit /\ [][BootNext]_vars

----------------------------------------------------------------------------
(* formatBytes of the client, on its own.  A byte count is the number
   (n / d) * 1024^e, kept in that form so that counts of 1024^5 and more
   fit the integers of the checker *)

Bytes(n, d, e) == [n |-> n, d |-> d, e |-> e]
ByteCounts == {Bytes(n, d, e) : n \in 0..MaxMantissa, d \in {1, 2}, e \in -1..MaxExp}

\* const sizes = ['B', 'KB', 'MB', 'GB', 'TB'], indexed from 0
Sizes == <<"B", "KB", "MB", "GB", "TB">>

\* sizes[i]: an index outside the array reads undefined
SizeAt(i) == IF i \in 0..(Len(Sizes) - 1) THEN Sizes[i + 1] ELSE "undefined"

\* Math.floor(Math.log(n / d) / Math.log(1024)) for n, d > 0
RECURSIVE FloorLog(_, _)
FloorLog(n, d) ==
    IF n >= Base * d THEN 1 + FloorLog(n, Base * d)
    ELSE IF n < d THEN FloorLog(Base * n, d) - 1
    ELSE 0

\* const i = Math.floor(Math.log(bytes) / Math.log(1024))
UnitIndex(b) == FloorLog(b.n, b.d) + b.e

\* Math.round(bytes / Math.pow(1024, i) * 100) / 100, in hundredths
RECURSIVE Pow(_, _)
Pow(x, k) == IF k = 0 THEN 1 ELSE x * Pow(x, k - 1)

Scaled(b, i) ==
    LET k == i - b.e
        num == IF k >= 0 THEN b.n * RoundScale ELSE b.n * RoundScale * Pow(Base, -k)
        den == IF k >= 0 THEN b.d * Pow(Base, k) ELSE b.d
    IN  Ratio((2 * num + den) \div (2 * den), RoundScale)

formatBytes(b) ==
    IF b.n = 0 THEN [value |-> Num(0), unit |-> "B"]
    ELSE LET i == UnitIndex(b)
         IN  [value |-> Scaled(b, i), unit |-> SizeAt(i)]

FormatInit ==
    /\ connectedClients = 0
    /\ sockets = {}
    /\ serverState = "running"
    /\ ticks = 0
    /\ samples = [s \in TickIds |-> NoSample]
    /\ samplerCalls = 0
    /\ received = [v \in Viewers |-> <<>>]
    /\ connects = 0
    /\ disconnects = 0
    /\ httpOut = NoResponse
    /\ client = [v \in Viewers |-> AppInit]
    /\ \E b \in ByteCounts : probe = [phase |-> "given", bytes |-> b, out |-> Null]

FormatCall ==
    /\ probe.phase = "given"
    /\ probe' = [probe EXCEPT !.phase = "formatted", !.out = formatBytes(probe.bytes)]
    /\ UNCHANGED <<connectedClients, sockets, serverState, ticks, samples,
                   samplerCalls, received, connects, disconnects, httpOut, client>>

FormatNext == FormatCall

FormatSpec == FormatInit /\ [][FormatNext]_vars

----------------------------------------------------------------------------
(* Properties *)

\* the positions in viewer v's log of the events pushed for tick s
EventsFrom(v, s) == {i \in DOMAIN received[v] : received[v][i].sample = s}

Fired(s) == samples[s].phase # "unfired"

\* C1: a tick that fires with connectedClients = 0 does not call
\* getSystemMetrics and emits nothing: the sampler has been called exactly
\* once per tick that fired with a positive counter
C1_IdleSkip ==
    /\ \A s \in TickIds :
          Fired(s) /\ samples[s].atFire = 0 =>
             /\ samples[s].phase = "done"
             /\ samples[s].out = "skipped"
             /\ \A v \in Viewers : EventsFrom(v, s) = {}
    /\ samplerCalls = Cardinality({s \in TickIds : Fired(s) /\ samples[s].atFire > 0})

\* a tick that emitted, then a tick skipped after the viewers left
C1_Witness ==
    /\ samples[1].out = "emitted"
    /\ samples[2].out = "skipped"
    /\ samples[2].atFire = 0
    /\ connects > 0
    /\ disconnects > 0

\* C2: when the sampler fails (a query rejects, or building the snapshot
\* raises) nothing is emitted for that tick and the server keeps running
C2_FailureContained ==
    /\ serverState = "running"
    /\ \A s \in TickIds :
          samples[s].cause # "none" =>
             /\ samples[s].ret = Returned(Null)
             /\ samples[s].out \in {"none", "dropped"}
             /\ samples[s].phase = "done" => samples[s].out = "dropped"
             /\ \A v \in Viewers : EventsFrom(v, s) = {}

\* one tick failed on a query, another while building the snapshot
C2_Witness ==
    /\ serverState = "running"
    /\ \E s, t \in TickIds :
          /\ samples[s].out = "dropped" /\ samples[s].cause = "query"
          /\ samples[t].out = "dropped" /\ samples[t].cause = "assemble"
          /\ sockets # {}

\* C3: the push of a snapshot appends it to the log of exactly the viewers
\* connected at that moment, whoever was connected when the tick fired
C3_PushToConnected ==
    [][\A s \in TickIds :
          (/\ samples[s].phase = "returned"
           /\ samples[s].ret.value # Null
           /\ samples'[s].phase = "done")
          => \A v \in Viewers :
                received'[v] =
                   IF v \in sockets
                   THEN Append(received[v],
                               [sample |-> s, data |-> ToWire(samples[s].ret.value)])
                   ELSE received[v]]_vars

\* tick s fired with viewer 1 alone and reached viewers 1 and 2; tick t fired
\* with both and reached viewer 2 alone
C3_Witness ==
    \E s, t \in TickIds :
       /\ samples[s].out = "emitted" /\ samples[s].atFire = 1 /\ samples[s].to = {1, 2}
       /\ EventsFrom(2, s) # {}
       /\ samples[t].out = "emitted" /\ samples[t].atFire = 2 /\ samples[t].to = {2}
       /\ EventsFrom(1, t) = {}

\* C4: a /health response is {status: "OK", connectedClients: c - d} after c
\* connects and d disconnects
C4_HealthReportsCount ==
    httpOut # NoResponse =>
       httpOut = [status |-> "OK", connectedClients |-> connects - disconnects]

\* 0 again after the one viewer that connected has left
C4_Witness ==
    /\ httpOut = [status |-> "OK", connectedClients |-> 0]
    /\ connects = 1
    /\ disconnects = 1

\* C5: the counter is the number of connected sockets, never negative, and
\* each viewer is counted down at most once and only after being counted up
C5_CountIsConnected ==
    /\ connectedClients = Cardinality(sockets)
    /\ connectedClients >= 0
    /\ connects = 0 => connectedClients = 0
    /\ disconnects = Cardinality((1..connects) \ sockets)
    /\ sockets \subseteq 1..connects

\* two viewers connected, one of them left
C5_Witness ==
    /\ connects = 2
    /\ disconnects = 1
    /\ connectedClients = 1

\* C9: one viewer, one tick, a sample with memory total 100 and used 50: the
\* viewer has received exactly one event, with memory.percentage 50
C9_EndToEnd ==
    (/\ ticks = 1
     /\ connects = 1
     /\ disconnects = 0
     /\ samples[1].phase = "done"
     /\ samples[1].atFire = 1
     /\ samples[1].cause = "none")
    => /\ Len(received[1]) = 1
       /\ received[1][1].sample = 1
       /\ LET m == received[1][1].data.memory IN
             m.total = 100 /\ m.used = 50 => m.percentage = Num(50)

C9_Witness ==
    /\ ticks = 1
    /\ connects = 1
    /\ disconnects = 0
    /\ samples[1].out = "emitted"
    /\ Len(received[1]) = 1
    /\ received[1][1].data.memory.total = 100
    /\ received[1][1].data.memory.used = 50
    /\ received[1][1].data.memory.percentage = Num(50)

\* C10: earlier failures change nothing: every tick that fires with a
\* positive counter starts a sample, a sample that succeeds is pushed once,
\* and a failed one is never pushed
C10_NotSticky ==
    \A s \in TickIds :
       Fired(s) /\ samples[s].atFire > 0 =>
          /\ samples[s].out # "skipped"
          /\ samples[s].phase = "done" /\ samples[s].cause = "none" =>
                /\ samples[s].out = "emitted"
                /\ \A v \in samples[s].to : Cardinality(EventsFrom(v, s)) = 1
          /\ samples[s].out = "dropped" =>
                \A v \in Viewers : Cardinality(EventsFrom(v, s)) = 0
          /\ \A v \in Viewers : Cardinality(EventsFrom(v, s)) <= 1

\* a failed tick, then a tick whose snapshot reached a viewer
C10_Witness ==
    /\ samples[1].out = "dropped"
    /\ samples[2].out = "emitted"
    /\ samples[2].to # {}
    /\ \E v \in Viewers : EventsFrom(v, 2) # {} /\ EventsFrom(v, 1) = {}

(* Properties of one sampler call *)

\* C6: a call in which at least one of the nine queries rejected returns
\* null, whichever of the others resolved and whatever they answered
C6_AllOrNothing ==
    (probe.phase = "settled" /\ probe.failed # {}) =>
       /\ probe.ret.kind = "return"
       /\ probe.ret.value = Null
       /\ DOMAIN probe.ret.value = DOMAIN Null

\* one of the nine queries rejected, eight resolved with usable results
C6_Witness ==
    /\ probe.phase = "settled"
    /\ Cardinality(probe.failed) = 1
    /\ Cardinality(Queries \ probe.failed) = 8
    /\ ~AssembleThrows(probe.facts)
    /\ probe.ret.value = Null

\* C7: the process list of a snapshot is the first min(10, n) entries of
\* the collaborator's list, in its order, each cut to pid, name, cpu, mem
C7_TopProcesses ==
    (probe.phase = "settled" /\ probe.ret.value # Null) =>
       LET in == probe.facts.processes.list
           out == probe.ret.value.processes.list
       IN  /\ Len(out) <= 10
           /\ Len(out) = IF Len(in) < 10 THEN Len(in) ELSE 10
           /\ \A i \in 1..Len(out) :
                 /\ DOMAIN out[i] = {"pid", "name", "cpu", "mem"}
                 /\ out[i].pid = in[i].pid
                 /\ out[i].name = in[i].name
                 /\ out[i].cpu = in[i].cpu
                 /\ out[i].mem = in[i].mem

\* a table of more than 10 processes, not in cpu order, cut to 10
C7_Witness ==
    /\ probe.phase = "settled"
    /\ probe.ret.value # Null
    /\ Len(probe.facts.processes.list) > 10
    /\ Len(probe.ret.value.processes.list) = 10
    /\ \E i \in 1..9 : probe.ret.value.processes.list[i].cpu
                          < probe.ret.value.processes.list[i + 1].cpu

\* p is the JS value of used / total * 100
IsPercentageOf(p, used, total) ==
    IF total # 0
    THEN p.k = "num" /\ p.d > 0 /\ p.n * total = used * 100 * p.d
    ELSE IF used = 0 THEN p = NaN
    ELSE p = IF used > 0 THEN PosInf ELSE NegInf

\* C8: memory.percentage is used / total * 100, every volume's percentage
\* is its own used / size * 100, and the volumes are the collaborator's, in
\* its order
C8_Percentages ==
    (probe.phase = "settled" /\ probe.ret.value # Null) =>
       LET f == probe.facts
           m == probe.ret.value
       IN  /\ m.memory.total = f.mem.total
           /\ m.memory.used = f.mem.used
           /\ IsPercentageOf(m.memory.percentage, m.memory.used, m.memory.total)
           /\ Len(m.disk) = Len(f.fsSize)
           /\ \A i \in 1..Len(m.disk) :
                 /\ m.disk[i].fs = f.fsSize[i].fs
                 /\ m.disk[i].size = f.fsSize[i].size
                 /\ m.disk[i].used = f.fsSize[i].used
                 /\ IsPercentageOf(m.disk[i].percentage, m.disk[i].used, m.disk[i].size)

\* memory 3 of 8 is 37.5 percent; two volumes, 2 of 3 and 5 of 10
C8_Witness ==
    /\ probe.phase = "settled"
    /\ probe.ret.value # Null
    /\ probe.facts.mem.total = 8
    /\ probe.ret.value.memory.percentage = Ratio(75, 2)
    /\ Len(probe.ret.value.disk) = 2
    /\ probe.ret.value.disk[1].fs = "sdb1"
    /\ probe.ret.value.disk[1].percentage = Ratio(200, 3)
    /\ probe.ret.value.disk[2].percentage = Num(50)

(* Properties of the running server, continued *)

\* the state a handler other than /health can change
ServerState == <<connectedClients, sockets, serverState, ticks, samples, samplerCalls,
                 received, connects, disconnects>>

\* C11: serving /health changes nothing but the response and starts no
\* sample, and a step of a sample (its start, its settling with a snapshot
\* or with a failure, its push) changes neither the counter nor what
\* /health answers
C11_HealthFrame ==
    [][/\ httpOut' # NoResponse =>
             /\ UNCHANGED ServerState
             /\ httpOut' = [status |-> "OK", connectedClients |-> connectedClients]
       /\ samples' # samples =>
             /\ connectedClients' = connectedClients
             /\ HealthBody' = HealthBody]_vars

\* /health answered while one sample had failed and another was in flight
C11_Witness ==
    /\ httpOut = [status |-> "OK", connectedClients |-> 1]
    /\ \E s, t \in TickIds :
          /\ samples[s].out = "dropped"
          /\ samples[t].phase = "awaiting"

\* a snapshot without its timestamp
Untimed(m) == IF m = Null THEN Null ELSE [m EXCEPT !.timestamp = 0]

Broadcasts == {s \in TickIds : samples[s].emits > 0}

\* the ticks whose sample returned a snapshot and whose callback has finished
Succeeded == {s \in TickIds : /\ samples[s].phase = "done"
                               /\ samples[s].out # "skipped"
                               /\ samples[s].cause = "none"}

\* C13: a tick's callback calls io.emit at most once, and only when the tick
\* fired with a positive counter and its sample returned a snapshot: the
\* broadcasts are the successful samples, no more than the sampling ticks
C13_OneBroadcastPerTick ==
    /\ \A s \in TickIds :
          /\ samples[s].emits <= 1
          /\ samples[s].emits = 1 =>
                /\ samples[s].atFire > 0
                /\ samples[s].cause = "none"
                /\ samples[s].out = "emitted"
    /\ Broadcasts = Succeeded
    /\ Cardinality(Broadcasts)
          <= Cardinality({s \in TickIds : Fired(s) /\ samples[s].atFire > 0})
    /\ Cardinality(Broadcasts) <= ticks

\* two sampling ticks, one broadcast
C13_Witness ==
    /\ ticks = 2
    /\ \E s, t \in TickIds :
          /\ samples[s].emits = 1 /\ samples[s].to # {}
          /\ samples[t].out = "dropped" /\ samples[t].atFire > 0 /\ samples[t].emits = 0

(* Properties of the start-up *)

InFlight == {s \in TickIds : samples[s].phase = "awaiting"}

\* C15: a tick that fires with a positive counter starts a sample whether or
\* not earlier samples are still outstanding, so samples overlap
C15_NoInFlightGuard ==
    [][(ticks' = ticks + 1 /\ connectedClients > 0) =>
          /\ samplerCalls' = samplerCalls + 1
          /\ InFlight' = InFlight \cup {ticks'}
          /\ ticks' \notin InFlight]_vars

\* two samples in flight at once
C15_Witness ==
    /\ Cardinality(InFlight) >= 2
    /\ samplerCalls >= 2

\* C16: a sample in flight can always settle, whatever the counter is; it
\* leaves the wait only by settling, connects and disconnects leave it as it
\* is, and a snapshot that was returned is emitted to the sockets of that
\* moment, even to none, without a second look at the counter
C16_NoCancellation ==
    /\ [](\A s \in InFlight : Idle => ENABLED Settle(s))
    /\ [][\A s \in TickIds :
             /\ samples[s].phase = "awaiting" =>
                   \/ samples'[s] = samples[s]
                   \/ samples'[s].phase = "returned"
             /\ (/\ samples[s].phase = "returned"
                 /\ samples[s].ret.value # Null
                 /\ samples'[s] # samples[s])
                => /\ samples'[s].phase = "done"
                   /\ samples'[s].out = "emitted"
                   /\ samples'[s].emits = 1
                   /\ samples'[s].to = sockets]_vars

\* the tick fired for one viewer, the viewer left, the snapshot was emitted
\* to nobody
C16_Witness ==
    \E s \in TickIds :
       /\ samples[s].atFire = 1
       /\ samples[s].out = "emitted"
       /\ samples[s].emits = 1
       /\ samples[s].to = {}
       /\ connectedClients = 0
       /\ \A v \in Viewers : EventsFrom(v, s) = {}

\* C17: in every viewer's log the timestamps never decrease, in whatever
\* order overlapping samples settle; and between the settling of a sample
\* and the end of its callback no tick, connect, disconnect or request runs
C17_TimestampOrder ==
    /\ [](\A v \in Viewers : \A i, j \in DOMAIN received[v] :
             i < j => received[v][i].data.timestamp <= received[v][j].data.timestamp)
    /\ [][MicrotaskPending =>
             /\ UNCHANGED <<connectedClients, sockets, ticks, samplerCalls, connects,
                            disconnects>>
             /\ httpOut' = NoResponse
             /\ ~MicrotaskPending']_vars

\* a viewer received the snapshot of tick 2 before the snapshot of tick 1
C17_Witness ==
    \E v \in Viewers :
       /\ Len(received[v]) = 2
       /\ received[v][1].sample = 2
       /\ received[v][2].sample = 1
       /\ received[v][1].data.timestamp <= received[v][2].data.timestamp

\* C18: a connect adds one to the counter and a disconnect takes one off,
\* and neither starts a sample, emits, or touches a sample in flight; every
\* event a viewer holds was pushed by the callback of a tick
C18_ConnectFrame ==
    /\ [][/\ connects' # connects =>
                /\ connectedClients' = connectedClients + 1
                /\ UNCHANGED <<serverState, ticks, samples, samplerCalls, received>>
          /\ disconnects' # disconnects =>
                /\ connectedClients' = connectedClients - 1
                /\ UNCHANGED <<serverState, ticks, samples, samplerCalls, received>>]_vars
    /\ [](\A v \in Viewers : \A i \in DOMAIN received[v] :
             LET s == received[v][i].sample IN
                /\ samples[s].atFire > 0
                /\ samples[s].out = "emitted"
                /\ v \in samples[s].to)

\* viewer 2 connected and viewer 1 left while a sample was in flight; the
\* first snapshot of viewer 2 came with the push of a tick
C18_Witness ==
    /\ connects = 2
    /\ disconnects = 1
    /\ Len(received[2]) = 1
    /\ received[1] = <<>>
    /\ samples[received[2][1].sample].atFire = 1
    /\ samplerCalls = 1

(* Liveness, under LiveSpec *)

\* C19: again and again no continuation is waiting and the timer has fired
\* all its ticks, whether or not samples are outstanding; the continuation
\* of a sample that returned a snapshot leaves the event in the log of every
\* viewer connected then; and a tick that fires with a positive counter
\* behind an outstanding sample still samples
C19_EventualPush ==
    /\ []<>(~MicrotaskPending /\ ticks = MaxTicks)
    /\ [][\A s \in TickIds :
             (/\ samples[s].phase = "returned"
              /\ samples[s].ret.value # Null
              /\ samples'[s].phase # "returned")
             => \A v \in sockets :
                   \E i \in DOMAIN received'[v] : received'[v][i].sample = s]_vars
    /\ [](\A s, t \in TickIds :
             (s < t /\ samples[s].phase = "awaiting" /\ Fired(t) /\ samples[t].atFire > 0)
                => samples[t].out # "skipped")

\* the sample of tick 1 is still outstanding and the snapshot of tick 2 has
\* reached a viewer
C19_Witness ==
    /\ samples[1].phase = "awaiting"
    /\ samples[2].out = "emitted"
    /\ \E v \in Viewers : v \in sockets /\ EventsFrom(v, 2) # {} /\ EventsFrom(v, 1) = {}

(* Properties of one sampler call, continued *)

\* C20: a memory total or a volume size of 0 does not fail the sample: the
\* snapshot is returned, a truthy object that the callback emits, and the
\* percentage in it is NaN or an infinity, not 0
C20_ZeroTotalUnguarded ==
    (probe.phase = "settled" /\ probe.failed = {} /\ probe.facts.graphics.hasControllers)
    => LET f == probe.facts
           m == probe.ret.value
       IN  /\ probe.ret.kind = "return"
           /\ m # Null
           /\ f.mem.total = 0 =>
                 /\ m.memory.percentage.k \in {"nan", "inf"}
                 /\ m.memory.percentage # Num(0)
           /\ \A i \in 1..Len(f.fsSize) :
                 f.fsSize[i].size = 0 =>
                    /\ m.disk[i].percentage.k \in {"nan", "inf"}
                    /\ m.disk[i].percentage # Num(0)

\* 0 of 0 bytes of memory is NaN, 1 of 0 bytes of a volume is Infinity
C20_Witness ==
    /\ probe.phase = "settled"
    /\ probe.ret.value # Null
    /\ probe.facts.mem.total = 0
    /\ probe.ret.value.memory.percentage = NaN
    /\ Len(probe.ret.value.disk) = 1
    /\ probe.facts.fsSize[1].size = 0
    /\ probe.ret.value.disk[1].percentage = PosInf

\* a rate of the snapshot that is a number and not negative
IsRate(x) == x.k = "num" /\ x.d > 0 /\ x.n >= 0

\* C21: the snapshot has one network entry per interface of the collaborator,
\* in its order and under its name; a rate the collaborator gives as null or
\* NaN is 0 in the entry, any other rate is the collaborator's; and every
\* rate of the entry is a number not below 0
C21_NetworkRates ==
    (probe.phase = "settled" /\ probe.ret.value # Null) =>
       LET f == probe.facts.networkStats
           m == probe.ret.value.network
       IN  /\ Len(m) = Len(f)
           /\ \A i \in 1..Len(m) :
                 /\ m[i].iface = f[i].iface
                 /\ DOMAIN m[i] = {"iface", "rx_sec", "tx_sec"}
                 /\ \A r \in {"rx_sec", "tx_sec"} :
                       /\ f[i][r] \in {Null, NaN} => m[i][r] = Num(0)
                       /\ f[i][r] \notin {Null, NaN} => m[i][r] = f[i][r]
                       /\ IsRate(m[i][r])

\* eth0 before lo, the missing receive rate of lo reported as 0
C21_Witness ==
    /\ probe.phase = "settled"
    /\ probe.ret.value # Null
    /\ Len(probe.ret.value.network) = 2
    /\ probe.ret.value.network[1] = [iface |-> "eth0", rx_sec |-> Num(5), tx_sec |-> Num(0)]
    /\ probe.facts.networkStats[2].rx_sec = Null
    /\ probe.ret.value.network[2] = [iface |-> "lo", rx_sec |-> Num(0), tx_sec |-> Num(2)]

\* C22: memory.percentage of every snapshot is a number from 0 to 100
C22_MemoryPercentageRange ==
    (probe.phase = "settled" /\ probe.ret.value # Null) =>
       LET p == probe.ret.value.memory.percentage
       IN  /\ p.k = "num"
           /\ p.d > 0
           /\ 0 <= p.n
           /\ p.n <= Percent * p.d

(* Properties of the client's view *)

\* C23: a viewer's App shows the loading screen exactly as long as no
\* systemMetrics event has arrived, and after that the snapshot of the event
\* that arrived last; isConnected follows the socket; a disconnect changes
\* no viewer's snapshot, and a snapshot once set is never null again
C23_ClientView ==
    /\ [](\A v \in Viewers :
             /\ Render(client[v]).screen = "loading" <=> received[v] = <<>>
             /\ received[v] # <<>> =>
                   Render(client[v]) = [screen |-> "monitor",
                                        metrics |-> received[v][Len(received[v])].data]
             /\ client[v].isConnected <=> v \in sockets)
    /\ [][\A v \in Viewers :
             /\ disconnects' # disconnects => client'[v].metrics = client[v].metrics
             /\ client[v].metrics # Null => client'[v].metrics # Null]_vars

\* a viewer that got two different snapshots and then disconnected still
\* shows the second one
C23_Witness ==
    \E v \in Viewers :
       /\ Len(received[v]) = 2
       /\ received[v][1].data # received[v][2].data
       /\ v \notin sockets
       /\ ~client[v].isConnected
       /\ Render(client[v]) = [screen |-> "monitor", metrics |-> received[v][2].data]

(* Properties of formatBytes *)

\* C24: for every byte count of 0 or more the unit formatBytes writes is one
\* of B, KB, MB, GB, TB, and the index it computes is within 0..4
C24_UnitInRange ==
    probe.phase = "formatted" =>
       /\ probe.out.unit \in {Sizes[i] : i \in DOMAIN Sizes}
       /\ probe.bytes.n # 0 => UnitIndex(probe.bytes) \in 0..4

====
